---- MODULE Spec2Model ----
(***************************************************************************)
(* Traversal over a parsed HTML tree (traversal.go of goquery).            *)
(*                                                                         *)
(* The state is one document tree (html.Node records linked by Parent,     *)
(* FirstChild, NextSibling, PrevSibling, with a Type and a tag in Data),   *)
(* one Selection s (its Nodes), and the outcome of the last traversal      *)
(* method called on s: the call, the per-source-node expansions handed to  *)
(* mapNodes, and the Nodes of the Selection the method returned.           *)
(*                                                                         *)
(* Spec runs each method as one step.  SpecWalk runs one walk of           *)
(* getChildrenWithSiblingType, getParentsNodes, Closest or ClosestNodes    *)
(* one loop iteration at a time; walk is the frame of that walk.           *)
(***************************************************************************)
EXTENDS Integers, Sequences, FiniteSets

\* ------------------------------------------------------------------ bounds
NumNodes == 4   \* nodes of the document tree, numbered in document order
MaxSel == 2     \* longest source selection s.Nodes
MaxStop == 1    \* longest explicit node list passed to an ...Nodes method

\* ------------------------------------------------------------------ values
NIL == 0                       \* the nil *html.Node
NodeIds == 1..NumNodes
Tags == {"a", "b"}             \* element names; a selector is a tag name
Selectors == Tags

ElementNode == "ElementNode"
TextNode == "TextNode"
DocumentNode == "DocumentNode"

siblingPrevUntil == -3
siblingPrevAll == -2
siblingPrev == -1
siblingAll == 0
siblingNext == 1
siblingNextAll == 2
siblingNextUntil == 3
siblingAllIncludingNonElements == 4

VARIABLES Parent, FirstChild, NextSibling, PrevSibling, Type, Data,
          Nodes, call, vals, ret, panicked, walk

tree == <<Parent, FirstChild, NextSibling, PrevSibling, Type, Data>>
vars == <<Parent, FirstChild, NextSibling, PrevSibling, Type, Data,
          Nodes, call, vals, ret, panicked, walk>>

\* ------------------------------------------------------------------ helpers
Min(S) == CHOOSE x \in S : \A y \in S : x <= y
Max(S) == CHOOSE x \in S : \A y \in S : x >= y

RECURSIVE SortedSeq(_)
\* the members of a set of nodes in ascending (document) order
SortedSeq(S) == IF S = {} THEN <<>> ELSE <<Min(S)>> \o SortedSeq(S \ {Min(S)})

Range(q) == {q[i] : i \in DOMAIN q}

RECURSIVE Reverse(_)
Reverse(q) == IF q = <<>> THEN <<>> ELSE Append(Reverse(Tail(q)), Head(q))

NoDup(q) == \A i, j \in DOMAIN q : q[i] = q[j] => i = j

\* sequences over S without repetition, of length at most n
SeqsUpTo(S, n) ==
    {q \in UNION {[1..k -> S] : k \in 0..n} : NoDup(q)}

\* ------------------------------------------------------------------ the tree
\* Parent vectors of the trees with NumNodes nodes numbered in document
\* (pre)order: node 1 is the root, and every node between a node's parent and
\* the node lies in the parent's subtree.
ParentVectors ==
    {p \in [NodeIds -> 0..(NumNodes - 1)] :
        /\ p[1] = NIL
        /\ \A i \in 2..NumNodes :
              /\ p[i] \in 1..(i - 1)
              /\ \A j \in (p[i] + 1)..(i - 1) : p[j] >= p[i]}

\* Only the root may be a document node, only elements carry a tag, and a
\* text node has no children.
Labellings(p) ==
    {l \in [NodeIds -> {DocumentNode, TextNode} \cup Tags] :
        /\ \A n \in NodeIds : l[n] = DocumentNode => n = 1
        /\ \A n \in NodeIds : l[n] = TextNode => \A c \in NodeIds : p[c] # n}

ChildSet(p, n) == {c \in NodeIds : p[c] = n}

\* ------------------------------------------------------------------ selectors
\* cascadia.Selector.Match for a tag selector: only elements match
Match(selector, n) == Type[n] = ElementNode /\ Data[n] = selector

RECURSIVE matchAllInto(_, _), matchAllChildren(_, _)
\* cascadia.Selector.MatchAll: the matches among n and its descendants
matchAllInto(selector, n) ==
    (IF Match(selector, n) THEN <<n>> ELSE <<>>)
        \o matchAllChildren(selector, FirstChild[n])
matchAllChildren(selector, child) ==
    IF child = NIL THEN <<>>
    ELSE matchAllInto(selector, child) \o matchAllChildren(selector, NextSibling[child])

isInSlice(slice, n) == \E i \in DOMAIN slice : slice[i] = n

\* newSingleSelection(n, nil).Is(selector)
Is(n, selector) == Match(selector, n)

\* newSingleSelection(n, nil).IsNodes(nodes...)
IsNodes(n, nodes) == isInSlice(nodes, n)

\* winnow(sel, selector, true): the nodes of sel that match, in order
winnow(nodes, selector) == SelectSeq(nodes, LAMBDA n : Match(selector, n))

RECURSIVE appendWithoutDuplicates(_, _)
appendWithoutDuplicates(target, nodes) ==
    IF nodes = <<>> THEN target
    ELSE appendWithoutDuplicates(
            IF isInSlice(target, Head(nodes)) THEN target
            ELSE Append(target, Head(nodes)),
            Tail(nodes))

\* ------------------------------------------------------------------ mapNodes
RECURSIVE mapNodesFrom(_, _, _)
mapNodesFrom(fvals, i, result) ==
    IF i > Len(fvals) THEN result
    ELSE mapNodesFrom(fvals, i + 1,
            IF Len(fvals[i]) > 0 THEN appendWithoutDuplicates(result, fvals[i])
            ELSE result)

RECURSIVE concatAll(_, _)
concatAll(fvals, i) ==
    IF i > Len(fvals) THEN <<>> ELSE fvals[i] \o concatAll(fvals, i + 1)

\* mutant of mapNodes: result = append(result, vals...) in place of
\* appendWithoutDuplicates
mapNodes_plainAppend(fvals) ==
    [Nodes |-> concatAll(fvals, 1), vals |-> fvals, panic |-> FALSE]

\* mapNodes(nodes, f), given fvals[i] = f(i, nodes[i]). The slice returned is
\* Nodes; vals keeps the expansions it was merged from, and panic is set by a
\* caller whose callback panics.
mapNodes(fvals) ==
    [Nodes |-> mapNodesFrom(fvals, 1, <<>>), vals |-> fvals, panic |-> FALSE]

\* a callback panicked: nothing is returned
Panicked == [Nodes |-> <<>>, vals |-> <<>>, panic |-> TRUE]

\* ------------------------------------------------------------------ walker
AllModes == {siblingAll, siblingAllIncludingNonElements}
PrevModes == {siblingPrev, siblingPrevAll, siblingPrevUntil}
NextModes == {siblingNext, siblingNextAll, siblingNextUntil}

RECURSIVE iter_prevForward(_, _, _, _)
\* mutant of iter: the Prev modes advance through NextSibling
iter_prevForward(parent, st, skipNode, cur) ==
    LET ret0 ==
          IF st \in AllModes THEN
              IF cur = NIL THEN
                  IF FirstChild[parent] = skipNode /\ skipNode # NIL
                  THEN NextSibling[skipNode] ELSE FirstChild[parent]
              ELSE
                  IF NextSibling[cur] = skipNode /\ skipNode # NIL
                  THEN NextSibling[skipNode] ELSE NextSibling[cur]
          ELSE
              IF cur = NIL THEN NextSibling[skipNode] ELSE NextSibling[cur]
    IN  IF ret0 = NIL \/ Type[ret0] = ElementNode
           \/ st = siblingAllIncludingNonElements
        THEN ret0
        ELSE iter_prevForward(parent, st, skipNode, ret0)

RECURSIVE iter_elementsOnly(_, _, _, _)
\* mutant of iter: siblingAllIncludingNonElements skips non-elements like
\* every other mode
iter_elementsOnly(parent, st, skipNode, cur) ==
    LET ret0 ==
          IF st \in AllModes THEN
              IF cur = NIL THEN
                  IF FirstChild[parent] = skipNode /\ skipNode # NIL
                  THEN NextSibling[skipNode] ELSE FirstChild[parent]
              ELSE
                  IF NextSibling[cur] = skipNode /\ skipNode # NIL
                  THEN NextSibling[skipNode] ELSE NextSibling[cur]
          ELSE IF st \in PrevModes THEN
              IF cur = NIL THEN PrevSibling[skipNode] ELSE PrevSibling[cur]
          ELSE
              IF cur = NIL THEN NextSibling[skipNode] ELSE NextSibling[cur]
    IN  IF ret0 = NIL \/ Type[ret0] = ElementNode
        THEN ret0
        ELSE iter_elementsOnly(parent, st, skipNode, ret0)

RECURSIVE iter_skipFirstOnly(_, _, _, _)
\* mutant of iter: the skip node is stepped over only when it is the
\* parent's first child
iter_skipFirstOnly(parent, st, skipNode, cur) ==
    LET ret0 ==
          IF st \in AllModes THEN
              IF cur = NIL THEN
                  IF FirstChild[parent] = skipNode /\ skipNode # NIL
                  THEN NextSibling[skipNode] ELSE FirstChild[parent]
              ELSE NextSibling[cur]
          ELSE IF st \in PrevModes THEN
              IF cur = NIL THEN PrevSibling[skipNode] ELSE PrevSibling[cur]
          ELSE
              IF cur = NIL THEN NextSibling[skipNode] ELSE NextSibling[cur]
    IN  IF ret0 = NIL \/ Type[ret0] = ElementNode
           \/ st = siblingAllIncludingNonElements
        THEN ret0
        ELSE iter_skipFirstOnly(parent, st, skipNode, ret0)

RECURSIVE iter(_, _, _, _)
\* the closure iter of getChildrenWithSiblingType
iter(parent, st, skipNode, cur) ==
    LET ret0 ==
          IF st \in AllModes THEN
              IF cur = NIL THEN
                  IF FirstChild[parent] = skipNode /\ skipNode # NIL
                  THEN NextSibling[skipNode] ELSE FirstChild[parent]
              ELSE
                  IF NextSibling[cur] = skipNode /\ skipNode # NIL
                  THEN NextSibling[skipNode] ELSE NextSibling[cur]
          ELSE IF st \in PrevModes THEN
              IF cur = NIL THEN PrevSibling[skipNode] ELSE PrevSibling[cur]
          ELSE
              IF cur = NIL THEN NextSibling[skipNode] ELSE NextSibling[cur]
    IN  IF ret0 = NIL \/ Type[ret0] = ElementNode
           \/ st = siblingAllIncludingNonElements
        THEN ret0
        ELSE iter(parent, st, skipNode, ret0)

\* the closure f of getSiblingNodes
untilFunc(n, untilSelector, untilNodes) ==
    IF untilSelector # "" THEN Is(n, untilSelector)
    ELSE IF Len(untilNodes) > 0 THEN IsNodes(n, untilNodes)
    ELSE FALSE

RECURSIVE walkLoop_appendThenTest(_, _, _, _, _, _, _)
\* mutant of walkLoop: the until test comes after the append, so the walk
\* ends on the matching sibling but includes it
walkLoop_appendThenTest(parent, st, skipNode, untilSelector, untilNodes, c, result) ==
    IF c = NIL THEN result
    ELSE IF st \in {siblingNextUntil, siblingPrevUntil}
            /\ untilFunc(c, untilSelector, untilNodes) THEN Append(result, c)
    ELSE IF st \in {siblingNext, siblingPrev} THEN Append(result, c)
    ELSE walkLoop_appendThenTest(parent, st, skipNode, untilSelector, untilNodes,
                  iter(parent, st, skipNode, c), Append(result, c))

RECURSIVE walkLoop_noSingleExit(_, _, _, _, _, _, _)
\* mutant of walkLoop: siblingNext and siblingPrev do not return after the
\* first append
walkLoop_noSingleExit(parent, st, skipNode, untilSelector, untilNodes, c, result) ==
    IF c = NIL THEN result
    ELSE IF st \in {siblingNextUntil, siblingPrevUntil}
            /\ untilFunc(c, untilSelector, untilNodes) THEN result
    ELSE walkLoop_noSingleExit(parent, st, skipNode, untilSelector, untilNodes,
                  iter(parent, st, skipNode, c), Append(result, c))

RECURSIVE walkLoop(_, _, _, _, _, _, _)
\* the for loop of getChildrenWithSiblingType, from candidate c
walkLoop(parent, st, skipNode, untilSelector, untilNodes, c, result) ==
    IF c = NIL THEN result
    ELSE IF st \in {siblingNextUntil, siblingPrevUntil}
            /\ untilFunc(c, untilSelector, untilNodes) THEN result
    ELSE IF st \in {siblingNext, siblingPrev} THEN Append(result, c)
    ELSE walkLoop(parent, st, skipNode, untilSelector, untilNodes,
                  iter(parent, st, skipNode, c), Append(result, c))

\* a walker whose every mode starts from a field of parent
nilParent_anyMode(parent, st) == parent = NIL

\* parent.FirstChild with a nil parent: the runtime panics
nilParent(parent, st) == parent = NIL /\ st \in AllModes

getChildrenWithSiblingType(parent, st, skipNode, untilSelector, untilNodes) ==
    IF nilParent(parent, st) THEN <<>>
    ELSE walkLoop(parent, st, skipNode, untilSelector, untilNodes,
                  iter(parent, st, skipNode, NIL), <<>>)

\* ------------------------------------------------------------------ expansions
\* what each method's callback returns for the source nodes, in order
getSiblingVals(nodes, st, untilSelector, untilNodes) ==
    [i \in DOMAIN nodes |->
        getChildrenWithSiblingType(Parent[nodes[i]], st, nodes[i],
                                   untilSelector, untilNodes)]

getSiblingPanics(nodes, st) ==
    \E i \in DOMAIN nodes : nilParent(Parent[nodes[i]], st)

getSiblingNodes(nodes, st, untilSelector, untilNodes) ==
    IF getSiblingPanics(nodes, st) THEN Panicked
    ELSE mapNodes(getSiblingVals(nodes, st, untilSelector, untilNodes))

getChildrenVals(nodes, st) ==
    [i \in DOMAIN nodes |-> getChildrenWithSiblingType(nodes[i], st, NIL, "", <<>>)]

getChildrenNodes(nodes, st) == mapNodes(getChildrenVals(nodes, st))

\* the callback of getParentNodes
getParentVals(nodes) ==
    [i \in DOMAIN nodes |->
        IF Parent[nodes[i]] # NIL /\ Type[Parent[nodes[i]]] = ElementNode
        THEN <<Parent[nodes[i]]>> ELSE <<>>]

getParentNodes(nodes) == mapNodes(getParentVals(nodes))

RECURSIVE parentsLoop_inclusive(_, _, _, _)
\* mutant of parentsLoop: the stop test comes after the append, so the
\* matching ancestor is included
parentsLoop_inclusive(p, stopSelector, stopNodes, result) ==
    IF p = NIL THEN result
    ELSE LET next == IF Type[p] = ElementNode THEN Append(result, p) ELSE result
         IN  IF stopSelector # "" /\ Is(p, stopSelector) THEN next
             ELSE IF stopSelector = "" /\ Len(stopNodes) > 0
                     /\ IsNodes(p, stopNodes) THEN next
             ELSE parentsLoop_inclusive(Parent[p], stopSelector, stopNodes, next)

RECURSIVE parentsLoop(_, _, _, _)
\* the for loop of the callback of getParentsNodes, from ancestor p
parentsLoop(p, stopSelector, stopNodes, result) ==
    IF p = NIL THEN result
    ELSE IF stopSelector # "" /\ Is(p, stopSelector) THEN result
    ELSE IF stopSelector = "" /\ Len(stopNodes) > 0 /\ IsNodes(p, stopNodes)
         THEN result
    ELSE parentsLoop(Parent[p], stopSelector, stopNodes,
                     IF Type[p] = ElementNode THEN Append(result, p) ELSE result)

getParentsVals(nodes, stopSelector, stopNodes) ==
    [i \in DOMAIN nodes |->
        parentsLoop(Parent[nodes[i]], stopSelector, stopNodes, <<>>)]

getParentsNodes(nodes, stopSelector, stopNodes) ==
    mapNodes(getParentsVals(nodes, stopSelector, stopNodes))

RECURSIVE findLoop(_, _, _)
\* the for loop of the callback of findWithSelector, from child c
findLoop(c, selector, result) ==
    IF c = NIL THEN result
    ELSE findLoop(NextSibling[c], selector,
                  IF Type[c] = ElementNode
                  THEN result \o matchAllInto(selector, c) ELSE result)

\* mutant of findVals: MatchAll runs on the source node itself
findVals_fromSelf(nodes, selector) ==
    [i \in DOMAIN nodes |-> matchAllInto(selector, nodes[i])]

findVals(nodes, selector) ==
    [i \in DOMAIN nodes |-> findLoop(FirstChild[nodes[i]], selector, <<>>)]

findWithSelector(nodes, selector) == mapNodes(findVals(nodes, selector))

RECURSIVE closestLoop_stopAtRoot(_, _)
\* mutant of closestLoop: the loop ends at the node without a parent instead
\* of testing it
closestLoop_stopAtRoot(n, selector) ==
    IF n = NIL \/ Parent[n] = NIL THEN <<>>
    ELSE IF Match(selector, n) THEN <<n>>
    ELSE closestLoop_stopAtRoot(Parent[n], selector)

RECURSIVE closestLoop(_, _)
\* the for loop of the callback of Closest, from n
closestLoop(n, selector) ==
    IF n = NIL THEN <<>>
    ELSE IF Match(selector, n) THEN <<n>>
    ELSE closestLoop(Parent[n], selector)

closestVals(nodes, selector) ==
    [i \in DOMAIN nodes |-> closestLoop(nodes[i], selector)]

RECURSIVE closestNodesLoop(_, _)
\* the for loop of the callback of ClosestNodes, from n
closestNodesLoop(n, nodes) ==
    IF n = NIL THEN <<>>
    ELSE IF isInSlice(nodes, n) THEN <<n>>
    ELSE closestNodesLoop(Parent[n], nodes)

closestNodesVals(src, nodes) ==
    [i \in DOMAIN src |-> closestNodesLoop(src[i], nodes)]

\* pushStack(s, nodes): the Selection returned holds nodes
pushStack(nodes) == nodes

\* filterAndPush(s, nodes, selector): the nodes that match the selector
filterAndPush(nodes, selector) ==
    pushStack([nodes EXCEPT !.Nodes = winnow(nodes.Nodes, selector)])

\* ------------------------------------------------------------------ one walk, by steps
\* The frame of one walk: fn is the function walking, n the source node, pc
\* the loop the walk is in, cur the node iter was called on (or the p / n of
\* an ancestor loop), c the loop variable of getChildrenWithSiblingType,
\* result the slice built so far.  visited lists the nodes the walk came to,
\* revisited whether it came to one of them again.
WalkOn(fn, pc, n, parent, st, skipNode, selector, nodes, cur) ==
    [fn |-> fn, pc |-> pc, n |-> n, parent |-> parent, st |-> st,
     skipNode |-> skipNode, selector |-> selector, nodes |-> nodes,
     cur |-> cur, c |-> NIL, result |-> <<>>, visited |-> <<>>,
     revisited |-> FALSE]

NoWalk == WalkOn("", "idle", NIL, NIL, siblingAll, NIL, "", <<>>, NIL)

\* the walk comes to node x
Visit(w, x) ==
    IF x = NIL THEN w
    ELSE IF x \in Range(w.visited) THEN [w EXCEPT !.revisited = TRUE]
    ELSE [w EXCEPT !.visited = Append(@, x)]

\* the switch of iter: the sibling after cur in the direction of st, past
\* the pivot
iterSwitch(parent, st, skipNode, cur) ==
    IF st \in AllModes THEN
        IF cur = NIL THEN
            IF FirstChild[parent] = skipNode /\ skipNode # NIL
            THEN NextSibling[skipNode] ELSE FirstChild[parent]
        ELSE
            IF NextSibling[cur] = skipNode /\ skipNode # NIL
            THEN NextSibling[skipNode] ELSE NextSibling[cur]
    ELSE IF st \in PrevModes THEN
        IF cur = NIL THEN PrevSibling[skipNode] ELSE PrevSibling[cur]
    ELSE
        IF cur = NIL THEN NextSibling[skipNode] ELSE NextSibling[cur]

\* a retry that starts again from the node it started from
iterRetry_fromSame(cur, ret0) == cur

\* "Not valid, try again from this one"
iterRetry(cur, ret0) == ret0

\* one pass of the for loop of iter
iterPass(w) ==
    IF w.cur = NIL /\ nilParent(w.parent, w.st) THEN [w EXCEPT !.pc = "panic"]
    ELSE LET ret0 == iterSwitch(w.parent, w.st, w.skipNode, w.cur)
             v == Visit(w, ret0)
         IN  IF ret0 = NIL \/ Type[ret0] = ElementNode
                \/ w.st = siblingAllIncludingNonElements
             THEN [v EXCEPT !.c = ret0, !.pc = "loop"]
             ELSE [v EXCEPT !.cur = iterRetry(w.cur, ret0)]

\* the test and body of the for loop of getChildrenWithSiblingType, up to
\* its call of iter(c)
loopPass(w) ==
    IF w.c = NIL THEN [w EXCEPT !.pc = "done"]
    ELSE IF w.st \in {siblingNextUntil, siblingPrevUntil}
            /\ untilFunc(w.c, w.selector, w.nodes)
         THEN [w EXCEPT !.pc = "done"]
    ELSE IF w.st \in {siblingNext, siblingPrev}
         THEN [w EXCEPT !.result = Append(@, w.c), !.pc = "done"]
    ELSE [w EXCEPT !.result = Append(@, w.c), !.cur = w.c, !.pc = "iter"]

\* one pass of the ancestor loop of getParentsNodes, p in cur
parentsPass(w) ==
    LET p == w.cur
    IN  IF p = NIL THEN [w EXCEPT !.pc = "done"]
        ELSE IF w.selector # "" /\ Is(p, w.selector)
             THEN [Visit(w, p) EXCEPT !.pc = "done"]
        ELSE IF w.selector = "" /\ Len(w.nodes) > 0 /\ IsNodes(p, w.nodes)
             THEN [Visit(w, p) EXCEPT !.pc = "done"]
        ELSE [Visit(w, p) EXCEPT
                 !.result = IF Type[p] = ElementNode THEN Append(@, p) ELSE @,
                 !.cur = Parent[p]]

\* one pass of the loop of Closest (a selector) or ClosestNodes (nodes), n
\* in cur
closestPass(w) ==
    LET n == w.cur
    IN  IF n = NIL THEN [w EXCEPT !.pc = "done"]
        ELSE IF (w.fn = "Closest" /\ Match(w.selector, n))
                \/ (w.fn = "ClosestNodes" /\ isInSlice(w.nodes, n))
             THEN [Visit(w, n) EXCEPT !.result = <<n>>, !.pc = "done"]
        ELSE [Visit(w, n) EXCEPT !.cur = Parent[n]]

\* ------------------------------------------------------------------ state machine
\* A behaviour is one method call on a Selection s over a tree: Init draws the
\* tree and s.Nodes, and each action is one exported method, which records
\* its call, the expansions of the source nodes and the returned Nodes.
CallOf(op, filter, until, nodes, nilSel) ==
    [op |-> op, filter |-> filter, until |-> until, nodes |-> nodes,
     nilSel |-> nilSel]

NoCall == CallOf("", "", "", <<>>, FALSE)

NodeLists == SeqsUpTo(NodeIds, MaxStop)

\* a document tree, its sibling links derived from the parent links
TreeInit ==
    /\ \E p \in ParentVectors : \E l \in Labellings(p) :
          /\ Parent = p
          /\ FirstChild = [n \in NodeIds |->
                IF ChildSet(p, n) = {} THEN NIL ELSE Min(ChildSet(p, n))]
          /\ NextSibling = [n \in NodeIds |->
                LET later == {c \in ChildSet(p, p[n]) : c > n}
                IN  IF p[n] = NIL \/ later = {} THEN NIL ELSE Min(later)]
          /\ PrevSibling = [n \in NodeIds |->
                LET earlier == {c \in ChildSet(p, p[n]) : c < n}
                IN  IF p[n] = NIL \/ earlier = {} THEN NIL ELSE Max(earlier)]
          /\ Type = [n \in NodeIds |->
                IF l[n] \in Tags THEN ElementNode ELSE l[n]]
          /\ Data = [n \in NodeIds |-> IF l[n] \in Tags THEN l[n] ELSE ""]

Init ==
    /\ TreeInit
    /\ Nodes \in SeqsUpTo(NodeIds, MaxSel)
    /\ call = NoCall
    /\ vals = <<>>
    /\ ret = <<>>
    /\ panicked = FALSE
    /\ walk = NoWalk

\* The methods of Selection, on a receiver whose Nodes are s; each returns the
\* slice its Selection holds (with vals and panic as mapNodes left them). A
\* Selection argument sel is [isNil, Nodes].
Find(s, selector) == pushStack(findWithSelector(s, selector))

Contents(s) == pushStack(getChildrenNodes(s, siblingAllIncludingNonElements))

Children(s) == pushStack(getChildrenNodes(s, siblingAll))

ChildrenFiltered(s, selector) ==
    filterAndPush(getChildrenNodes(s, siblingAll), selector)

SelectionParent(s) == pushStack(getParentNodes(s))

ParentFiltered(s, selector) == filterAndPush(getParentNodes(s), selector)

Closest(s, selector) == pushStack(mapNodes(closestVals(s, selector)))

ClosestNodes(s, nodes) == pushStack(mapNodes(closestNodesVals(s, nodes)))

Parents(s) == pushStack(getParentsNodes(s, "", <<>>))

ParentsFiltered(s, selector) ==
    filterAndPush(getParentsNodes(s, "", <<>>), selector)

ParentsUntil(s, selector) == pushStack(getParentsNodes(s, selector, <<>>))

ParentsUntilNodes(s, nodes) == pushStack(getParentsNodes(s, "", nodes))

ParentsFilteredUntil(s, filterSelector, untilSelector) ==
    filterAndPush(getParentsNodes(s, untilSelector, <<>>), filterSelector)

ParentsFilteredUntilNodes(s, filterSelector, nodes) ==
    filterAndPush(getParentsNodes(s, "", nodes), filterSelector)

Siblings(s) == pushStack(getSiblingNodes(s, siblingAll, "", <<>>))

SiblingsFiltered(s, selector) ==
    filterAndPush(getSiblingNodes(s, siblingAll, "", <<>>), selector)

SelectionNext(s) == pushStack(getSiblingNodes(s, siblingNext, "", <<>>))

NextFiltered(s, selector) ==
    filterAndPush(getSiblingNodes(s, siblingNext, "", <<>>), selector)

NextAll(s) == pushStack(getSiblingNodes(s, siblingNextAll, "", <<>>))

NextAllFiltered(s, selector) ==
    filterAndPush(getSiblingNodes(s, siblingNextAll, "", <<>>), selector)

Prev(s) == pushStack(getSiblingNodes(s, siblingPrev, "", <<>>))

PrevFiltered(s, selector) ==
    filterAndPush(getSiblingNodes(s, siblingPrev, "", <<>>), selector)

PrevAll(s) == pushStack(getSiblingNodes(s, siblingPrevAll, "", <<>>))

PrevAllFiltered(s, selector) ==
    filterAndPush(getSiblingNodes(s, siblingPrevAll, "", <<>>), selector)

NextUntil(s, selector) ==
    pushStack(getSiblingNodes(s, siblingNextUntil, selector, <<>>))

NextUntilNodes(s, nodes) ==
    pushStack(getSiblingNodes(s, siblingNextUntil, "", nodes))

PrevUntil(s, selector) ==
    pushStack(getSiblingNodes(s, siblingPrevUntil, selector, <<>>))

PrevUntilNodes(s, nodes) ==
    pushStack(getSiblingNodes(s, siblingPrevUntil, "", nodes))

NextFilteredUntil(s, filterSelector, untilSelector) ==
    filterAndPush(getSiblingNodes(s, siblingNextUntil, untilSelector, <<>>),
                  filterSelector)

NextFilteredUntilNodes(s, filterSelector, nodes) ==
    filterAndPush(getSiblingNodes(s, siblingNextUntil, "", nodes), filterSelector)

PrevFilteredUntil(s, filterSelector, untilSelector) ==
    filterAndPush(getSiblingNodes(s, siblingPrevUntil, untilSelector, <<>>),
                  filterSelector)

PrevFilteredUntilNodes(s, filterSelector, nodes) ==
    filterAndPush(getSiblingNodes(s, siblingPrevUntil, "", nodes), filterSelector)

ParentsUntilSelection(s, sel) ==
    IF sel.isNil THEN Parents(s) ELSE ParentsUntilNodes(s, sel.Nodes)

ParentsFilteredUntilSelection(s, filterSelector, sel) ==
    IF sel.isNil THEN ParentsFiltered(s, filterSelector)
    ELSE ParentsFilteredUntilNodes(s, filterSelector, sel.Nodes)

NextUntilSelection(s, sel) ==
    IF sel.isNil THEN NextAll(s) ELSE NextUntilNodes(s, sel.Nodes)

PrevUntilSelection(s, sel) ==
    IF sel.isNil THEN PrevAll(s) ELSE PrevUntilNodes(s, sel.Nodes)

NextFilteredUntilSelection(s, filterSelector, sel) ==
    IF sel.isNil THEN NextFiltered(s, filterSelector)
    ELSE NextFilteredUntilNodes(s, filterSelector, sel.Nodes)

PrevFilteredUntilSelection(s, filterSelector, sel) ==
    IF sel.isNil THEN PrevFiltered(s, filterSelector)
    ELSE PrevFilteredUntilNodes(s, filterSelector, sel.Nodes)

\* ------------------------------------------------------------------ the calls
Fresh == call = NoCall

\* the method called as c returned (or panicked with) r
Do(c, r) ==
    /\ call' = c
    /\ vals' = r.vals
    /\ ret' = r.Nodes
    /\ panicked' = r.panic
    /\ UNCHANGED <<tree, Nodes, walk>>

NilSelection == [isNil |-> TRUE, Nodes |-> <<>>]
SelectionArgs ==
    {NilSelection} \cup {[isNil |-> FALSE, Nodes |-> ns] : ns \in NodeLists}

CallFind ==
    /\ Fresh
    /\ \E f \in Selectors :
          Do(CallOf("Find", f, "", <<>>, FALSE),
             Find(Nodes, f))

CallContents ==
    /\ Fresh
    /\ Do(CallOf("Contents", "", "", <<>>, FALSE),
          Contents(Nodes))

CallChildren ==
    /\ Fresh
    /\ Do(CallOf("Children", "", "", <<>>, FALSE),
          Children(Nodes))

CallChildrenFiltered ==
    /\ Fresh
    /\ \E f \in Selectors :
          Do(CallOf("ChildrenFiltered", f, "", <<>>, FALSE),
             ChildrenFiltered(Nodes, f))

CallParent ==
    /\ Fresh
    /\ Do(CallOf("Parent", "", "", <<>>, FALSE),
          SelectionParent(Nodes))

CallParentFiltered ==
    /\ Fresh
    /\ \E f \in Selectors :
          Do(CallOf("ParentFiltered", f, "", <<>>, FALSE),
             ParentFiltered(Nodes, f))

CallClosest ==
    /\ Fresh
    /\ \E f \in Selectors :
          Do(CallOf("Closest", f, "", <<>>, FALSE),
             Closest(Nodes, f))

CallClosestNodes ==
    /\ Fresh
    /\ \E ns \in NodeLists :
          Do(CallOf("ClosestNodes", "", "", ns, FALSE),
             ClosestNodes(Nodes, ns))

CallParents ==
    /\ Fresh
    /\ Do(CallOf("Parents", "", "", <<>>, FALSE),
          Parents(Nodes))

CallParentsFiltered ==
    /\ Fresh
    /\ \E f \in Selectors :
          Do(CallOf("ParentsFiltered", f, "", <<>>, FALSE),
             ParentsFiltered(Nodes, f))

CallParentsUntil ==
    /\ Fresh
    /\ \E u \in Selectors :
          Do(CallOf("ParentsUntil", "", u, <<>>, FALSE),
             ParentsUntil(Nodes, u))

CallParentsUntilNodes ==
    /\ Fresh
    /\ \E ns \in NodeLists :
          Do(CallOf("ParentsUntilNodes", "", "", ns, FALSE),
             ParentsUntilNodes(Nodes, ns))

CallParentsUntilSelection ==
    /\ Fresh
    /\ \E sel \in SelectionArgs :
          Do(CallOf("ParentsUntilSelection", "", "", sel.Nodes, sel.isNil),
             ParentsUntilSelection(Nodes, sel))

CallParentsFilteredUntil ==
    /\ Fresh
    /\ \E f \in Selectors, u \in Selectors :
          Do(CallOf("ParentsFilteredUntil", f, u, <<>>, FALSE),
             ParentsFilteredUntil(Nodes, f, u))

CallParentsFilteredUntilNodes ==
    /\ Fresh
    /\ \E f \in Selectors, ns \in NodeLists :
          Do(CallOf("ParentsFilteredUntilNodes", f, "", ns, FALSE),
             ParentsFilteredUntilNodes(Nodes, f, ns))

CallParentsFilteredUntilSelection ==
    /\ Fresh
    /\ \E f \in Selectors, sel \in SelectionArgs :
          Do(CallOf("ParentsFilteredUntilSelection", f, "", sel.Nodes, sel.isNil),
             ParentsFilteredUntilSelection(Nodes, f, sel))

CallSiblings ==
    /\ Fresh
    /\ Do(CallOf("Siblings", "", "", <<>>, FALSE),
          Siblings(Nodes))

CallSiblingsFiltered ==
    /\ Fresh
    /\ \E f \in Selectors :
          Do(CallOf("SiblingsFiltered", f, "", <<>>, FALSE),
             SiblingsFiltered(Nodes, f))

CallNext ==
    /\ Fresh
    /\ Do(CallOf("Next", "", "", <<>>, FALSE),
          SelectionNext(Nodes))

CallNextFiltered ==
    /\ Fresh
    /\ \E f \in Selectors :
          Do(CallOf("NextFiltered", f, "", <<>>, FALSE),
             NextFiltered(Nodes, f))

CallNextAll ==
    /\ Fresh
    /\ Do(CallOf("NextAll", "", "", <<>>, FALSE),
          NextAll(Nodes))

CallNextAllFiltered ==
    /\ Fresh
    /\ \E f \in Selectors :
          Do(CallOf("NextAllFiltered", f, "", <<>>, FALSE),
             NextAllFiltered(Nodes, f))

CallPrev ==
    /\ Fresh
    /\ Do(CallOf("Prev", "", "", <<>>, FALSE),
          Prev(Nodes))

CallPrevFiltered ==
    /\ Fresh
    /\ \E f \in Selectors :
          Do(CallOf("PrevFiltered", f, "", <<>>, FALSE),
             PrevFiltered(Nodes, f))

CallPrevAll ==
    /\ Fresh
    /\ Do(CallOf("PrevAll", "", "", <<>>, FALSE),
          PrevAll(Nodes))

CallPrevAllFiltered ==
    /\ Fresh
    /\ \E f \in Selectors :
          Do(CallOf("PrevAllFiltered", f, "", <<>>, FALSE),
             PrevAllFiltered(Nodes, f))

CallNextUntil ==
    /\ Fresh
    /\ \E u \in Selectors :
          Do(CallOf("NextUntil", "", u, <<>>, FALSE),
             NextUntil(Nodes, u))

CallNextUntilNodes ==
    /\ Fresh
    /\ \E ns \in NodeLists :
          Do(CallOf("NextUntilNodes", "", "", ns, FALSE),
             NextUntilNodes(Nodes, ns))

CallNextUntilSelection ==
    /\ Fresh
    /\ \E sel \in SelectionArgs :
          Do(CallOf("NextUntilSelection", "", "", sel.Nodes, sel.isNil),
             NextUntilSelection(Nodes, sel))

CallPrevUntil ==
    /\ Fresh
    /\ \E u \in Selectors :
          Do(CallOf("PrevUntil", "", u, <<>>, FALSE),
             PrevUntil(Nodes, u))

CallPrevUntilNodes ==
    /\ Fresh
    /\ \E ns \in NodeLists :
          Do(CallOf("PrevUntilNodes", "", "", ns, FALSE),
             PrevUntilNodes(Nodes, ns))

CallPrevUntilSelection ==
    /\ Fresh
    /\ \E sel \in SelectionArgs :
          Do(CallOf("PrevUntilSelection", "", "", sel.Nodes, sel.isNil),
             PrevUntilSelection(Nodes, sel))

CallNextFilteredUntil ==
    /\ Fresh
    /\ \E f \in Selectors, u \in Selectors :
          Do(CallOf("NextFilteredUntil", f, u, <<>>, FALSE),
             NextFilteredUntil(Nodes, f, u))

CallNextFilteredUntilNodes ==
    /\ Fresh
    /\ \E f \in Selectors, ns \in NodeLists :
          Do(CallOf("NextFilteredUntilNodes", f, "", ns, FALSE),
             NextFilteredUntilNodes(Nodes, f, ns))

CallNextFilteredUntilSelection ==
    /\ Fresh
    /\ \E f \in Selectors, sel \in SelectionArgs :
          Do(CallOf("NextFilteredUntilSelection", f, "", sel.Nodes, sel.isNil),
             NextFilteredUntilSelection(Nodes, f, sel))

CallPrevFilteredUntil ==
    /\ Fresh
    /\ \E f \in Selectors, u \in Selectors :
          Do(CallOf("PrevFilteredUntil", f, u, <<>>, FALSE),
             PrevFilteredUntil(Nodes, f, u))

CallPrevFilteredUntilNodes ==
    /\ Fresh
    /\ \E f \in Selectors, ns \in NodeLists :
          Do(CallOf("PrevFilteredUntilNodes", f, "", ns, FALSE),
             PrevFilteredUntilNodes(Nodes, f, ns))

CallPrevFilteredUntilSelection ==
    /\ Fresh
    /\ \E f \in Selectors, sel \in SelectionArgs :
          Do(CallOf("PrevFilteredUntilSelection", f, "", sel.Nodes, sel.isNil),
             PrevFilteredUntilSelection(Nodes, f, sel))

Next ==
    \/ CallFind
    \/ CallContents
    \/ CallChildren
    \/ CallChildrenFiltered
    \/ CallParent
    \/ CallParentFiltered
    \/ CallClosest
    \/ CallClosestNodes
    \/ CallParents
    \/ CallParentsFiltered
    \/ CallParentsUntil
    \/ CallParentsUntilNodes
    \/ CallParentsUntilSelection
    \/ CallParentsFilteredUntil
    \/ CallParentsFilteredUntilNodes
    \/ CallParentsFilteredUntilSelection
    \/ CallSiblings
    \/ CallSiblingsFiltered
    \/ CallNext
    \/ CallNextFiltered
    \/ CallNextAll
    \/ CallNextAllFiltered
    \/ CallPrev
    \/ CallPrevFiltered
    \/ CallPrevAll
    \/ CallPrevAllFiltered
    \/ CallNextUntil
    \/ CallNextUntilNodes
    \/ CallNextUntilSelection
    \/ CallPrevUntil
    \/ CallPrevUntilNodes
    \/ CallPrevUntilSelection
    \/ CallNextFilteredUntil
    \/ CallNextFilteredUntilNodes
    \/ CallNextFilteredUntilSelection
    \/ CallPrevFilteredUntil
    \/ CallPrevFilteredUntilNodes
    \/ CallPrevFilteredUntilSelection

Spec == Init /\ [][Next]_vars

\* ------------------------------------------------------------------ the walks
\* the walks a method starts for the source node n: getChildrenNodes walks
\* the children of n, getSiblingNodes the siblings of n around the pivot n,
\* getParentsNodes the ancestors of n, Closest / ClosestNodes n and its
\* ancestors
ChildrenWalks(n) ==
    {WalkOn("getChildrenWithSiblingType", "iter", n, n, st, NIL, "", <<>>, NIL) :
        st \in {siblingAll, siblingAllIncludingNonElements}}

SiblingWalks(n) ==
    {WalkOn("getChildrenWithSiblingType", "iter", n, Parent[n], st, n,
            "", <<>>, NIL) :
        st \in {siblingAll, siblingNext, siblingNextAll, siblingPrev,
                siblingPrevAll}}
    \cup
    {WalkOn("getChildrenWithSiblingType", "iter", n, Parent[n], st, n,
            u, <<>>, NIL) :
        st \in {siblingNextUntil, siblingPrevUntil}, u \in Selectors}
    \cup
    {WalkOn("getChildrenWithSiblingType", "iter", n, Parent[n], st, n,
            "", ns, NIL) :
        st \in {siblingNextUntil, siblingPrevUntil}, ns \in NodeLists}

ParentsWalks(n) ==
    {WalkOn("getParentsNodes", "parents", n, NIL, siblingAll, NIL,
            u, <<>>, Parent[n]) : u \in Selectors \cup {""}}
    \cup
    {WalkOn("getParentsNodes", "parents", n, NIL, siblingAll, NIL,
            "", ns, Parent[n]) : ns \in NodeLists}

ClosestWalks(n) ==
    {WalkOn("Closest", "closest", n, NIL, siblingAll, NIL, u, <<>>, n) :
        u \in Selectors}
    \cup
    {WalkOn("ClosestNodes", "closest", n, NIL, siblingAll, NIL, "", ns, n) :
        ns \in NodeLists}

InitWalk ==
    /\ TreeInit
    /\ \E n \in NodeIds :
          /\ Nodes = <<n>>
          /\ walk \in ChildrenWalks(n) \cup SiblingWalks(n)
                      \cup ParentsWalks(n) \cup ClosestWalks(n)
    /\ call = NoCall
    /\ vals = <<>>
    /\ ret = <<>>
    /\ panicked = FALSE

\* the walk moves to frame w
WalkTo(w) ==
    /\ walk' = w
    /\ panicked' = (w.pc = "panic")
    /\ UNCHANGED <<tree, Nodes, call, vals, ret>>

IterStep ==
    /\ walk.pc = "iter"
    /\ WalkTo(iterPass(walk))

LoopStep ==
    /\ walk.pc = "loop"
    /\ WalkTo(loopPass(walk))

ParentsStep ==
    /\ walk.pc = "parents"
    /\ WalkTo(parentsPass(walk))

ClosestStep ==
    /\ walk.pc = "closest"
    /\ WalkTo(closestPass(walk))

NextWalk ==
    \/ IterStep
    \/ LoopStep
    \/ ParentsStep
    \/ ClosestStep

\* the walk runs in the caller's goroutine, with nothing to wait for: a walk
\* that can take a step takes it
SpecWalk == InitWalk /\ [][NextWalk]_vars /\ WF_vars(NextWalk)

\* a finished walk built the slice that the function returns in Spec
WalkAgrees ==
    walk.pc = "done" =>
        walk.result =
            CASE walk.fn = "getChildrenWithSiblingType" ->
                    getChildrenWithSiblingType(walk.parent, walk.st,
                        walk.skipNode, walk.selector, walk.nodes)
              [] walk.fn = "getParentsNodes" ->
                    parentsLoop(Parent[walk.n], walk.selector, walk.nodes, <<>>)
              [] walk.fn = "Closest" -> closestLoop(walk.n, walk.selector)
              [] walk.fn = "ClosestNodes" -> closestNodesLoop(walk.n, walk.nodes)

\* ------------------------------------------------------------------ the tree, read
\* without the sibling links: node numbers are document order
IsElement(n) == Type[n] = ElementNode

ElementsOf(q) == SelectSeq(q, IsElement)

\* the children of p in document order
ChildSeq(p) == SortedSeq({c \in NodeIds : Parent[c] = p})

\* the siblings of n after and before it
Following(n) == {x \in NodeIds : Parent[n] # NIL /\ Parent[x] = Parent[n] /\ x > n}
Preceding(n) == {x \in NodeIds : Parent[n] # NIL /\ Parent[x] = Parent[n] /\ x < n}

RECURSIVE IsAncestor(_, _)
IsAncestor(a, n) ==
    Parent[n] # NIL /\ (Parent[n] = a \/ IsAncestor(a, Parent[n]))

Ancestors(n) == {a \in NodeIds : IsAncestor(a, n)}

\* the Selection argument of the recorded call
SelArg == [isNil |-> call.nilSel, Nodes |-> call.nodes]

\* the stop condition of the recorded call: its selector, or membership in
\* its node list
StopMatches(x) ==
    IF call.until # "" THEN IsElement(x) /\ Data[x] = call.until
    ELSE x \in Range(call.nodes)

Sources == DOMAIN vals

\* ------------------------------------------------------------------ C1
\* C1 (dedup invariant): whatever the source nodes and whatever traversal
\* method was called, the returned node list holds each node at most once.
C1_Dedup == \A i, j \in DOMAIN ret : ret[i] = ret[j] => i = j

\* two source nodes expanded to the same node, which was returned
C1_Witness ==
    \E i, j \in Sources :
        /\ i # j
        /\ \E x \in Range(vals[i]) \cap Range(vals[j]) : x \in Range(ret)

\* ------------------------------------------------------------------ C2
NextUntilOps == {"NextUntil", "NextUntilNodes", "NextUntilSelection"}
PrevUntilOps == {"PrevUntil", "PrevUntilNodes", "PrevUntilSelection"}

\* C2 as claimed (until boundary exclusivity, stop members of any kind): what
\* NextUntil contributes for a source node holds no node matching the stop
\* condition and no sibling after the first stop-matching sibling that
\* follows the source node; mirrored for PrevUntil.
C2_UntilExclusiveAnyKind ==
    /\ call.op \in NextUntilOps =>
          \A i \in Sources : \A y \in Range(vals[i]) :
              ~ \E x \in Following(Nodes[i]) : StopMatches(x) /\ x <= y
    /\ call.op \in PrevUntilOps =>
          \A i \in Sources : \A y \in Range(vals[i]) :
              ~ \E x \in Preceding(Nodes[i]) : StopMatches(x) /\ x >= y

\* C2 as amended: the same, with the boundary at the first stop-matching
\* ELEMENT sibling: a stop node that is not an element never ends the walk.
C2_UntilExclusiveElements ==
    /\ call.op \in NextUntilOps =>
          \A i \in Sources : \A y \in Range(vals[i]) :
              ~ \E x \in Following(Nodes[i]) :
                    IsElement(x) /\ StopMatches(x) /\ x <= y
    /\ call.op \in PrevUntilOps =>
          \A i \in Sources : \A y \in Range(vals[i]) :
              ~ \E x \in Preceding(Nodes[i]) :
                    IsElement(x) /\ StopMatches(x) /\ x >= y

\* NextUntil contributed a node for a source node and then met a
\* stop-matching element sibling
C2_Witness ==
    /\ call.op \in NextUntilOps
    /\ \E i \in Sources :
          /\ vals[i] # <<>>
          /\ \E x \in Following(Nodes[i]) : IsElement(x) /\ StopMatches(x)

\* ------------------------------------------------------------------ C3
FilteredOps ==
    {"ChildrenFiltered", "ParentFiltered", "ParentsFiltered",
     "ParentsFilteredUntil", "ParentsFilteredUntilSelection",
     "ParentsFilteredUntilNodes", "SiblingsFiltered", "NextFiltered",
     "NextAllFiltered", "PrevFiltered", "PrevAllFiltered",
     "NextFilteredUntil", "NextFilteredUntilSelection",
     "NextFilteredUntilNodes", "PrevFilteredUntil",
     "PrevFilteredUntilSelection", "PrevFilteredUntilNodes"}

\* what the unfiltered counterpart of the recorded call returns for the same
\* selection and the same stop argument
Unfiltered ==
    CASE call.op = "ChildrenFiltered" -> Children(Nodes)
      [] call.op = "ParentFiltered" -> SelectionParent(Nodes)
      [] call.op = "ParentsFiltered" -> Parents(Nodes)
      [] call.op = "ParentsFilteredUntil" -> ParentsUntil(Nodes, call.until)
      [] call.op = "ParentsFilteredUntilSelection" ->
            ParentsUntilSelection(Nodes, SelArg)
      [] call.op = "ParentsFilteredUntilNodes" ->
            ParentsUntilNodes(Nodes, call.nodes)
      [] call.op = "SiblingsFiltered" -> Siblings(Nodes)
      [] call.op = "NextFiltered" -> SelectionNext(Nodes)
      [] call.op = "NextAllFiltered" -> NextAll(Nodes)
      [] call.op = "PrevFiltered" -> Prev(Nodes)
      [] call.op = "PrevAllFiltered" -> PrevAll(Nodes)
      [] call.op = "NextFilteredUntil" -> NextUntil(Nodes, call.until)
      [] call.op = "NextFilteredUntilSelection" ->
            NextUntilSelection(Nodes, SelArg)
      [] call.op = "NextFilteredUntilNodes" -> NextUntilNodes(Nodes, call.nodes)
      [] call.op = "PrevFilteredUntil" -> PrevUntil(Nodes, call.until)
      [] call.op = "PrevFilteredUntilSelection" ->
            PrevUntilSelection(Nodes, SelArg)
      [] call.op = "PrevFilteredUntilNodes" -> PrevUntilNodes(Nodes, call.nodes)

MatchesFilter(n) == IsElement(n) /\ Data[n] = call.filter

\* C3 (filtered variants only prune): a filtered method returns exactly the
\* nodes of its unfiltered counterpart's result that match the filter, in the
\* same order, for the same selection and stop argument (a nil stop
\* Selection included).
C3_FilteredOnlyPrunes ==
    call.op \in FilteredOps =>
        /\ panicked = Unfiltered.panic
        /\ ret = SelectSeq(Unfiltered.Nodes, MatchesFilter)

\* ------------------------------------------------------------------ C4
\* the walk from pivot n in the given mode, without a stop condition
WalkOf(n, st) == getChildrenWithSiblingType(Parent[n], st, n, "", <<>>)

FirstOf(q) == IF q = <<>> THEN <<>> ELSE <<Head(q)>>

\* C4 (single cardinality): for each source node, Next (Prev) contributes at
\* most one node: the first node of the NextAll (PrevAll) walk from it, which
\* is the nearest element sibling in that direction, and nothing exactly when
\* that walk is empty.
C4_SingleCardinality ==
    /\ call.op = "Next" =>
          \A i \in Sources :
              LET n == Nodes[i]
                  after == {x \in Following(n) : IsElement(x)}
              IN  /\ Len(vals[i]) <= 1
                  /\ vals[i] = FirstOf(WalkOf(n, siblingNextAll))
                  /\ vals[i] = IF after = {} THEN <<>> ELSE <<Min(after)>>
    /\ call.op = "Prev" =>
          \A i \in Sources :
              LET n == Nodes[i]
                  before == {x \in Preceding(n) : IsElement(x)}
              IN  /\ Len(vals[i]) <= 1
                  /\ vals[i] = FirstOf(WalkOf(n, siblingPrevAll))
                  /\ vals[i] = IF before = {} THEN <<>> ELSE <<Max(before)>>

\* Next contributed the nearest element sibling across a non-element one
C4_Witness ==
    /\ call.op = "Next"
    /\ \E i \in Sources :
          /\ Len(vals[i]) = 1
          /\ \E x \in Following(Nodes[i]) : ~IsElement(x) /\ x < vals[i][1]

\* ------------------------------------------------------------------ C5
Descending(q) == \A i, j \in DOMAIN q : i < j => q[i] > q[j]
Ascending(q) == \A i, j \in DOMAIN q : i < j => q[i] < q[j]

\* C5 (order invariant): for an element source node with a parent,
\* reverse(PrevAll) \o <<self>> \o NextAll is the list of the parent's element
\* children in document order; PrevAll is nearest first, NextAll in document
\* order.
C5_OrderInvariant ==
    /\ call.op = "PrevAll" =>
          \A i \in Sources :
              LET n == Nodes[i]
              IN  /\ Descending(vals[i])
                  /\ (IsElement(n) /\ Parent[n] # NIL) =>
                        Reverse(vals[i]) \o <<n>> \o WalkOf(n, siblingNextAll)
                            = ElementsOf(ChildSeq(Parent[n]))
    /\ call.op = "NextAll" =>
          \A i \in Sources :
              LET n == Nodes[i]
              IN  /\ Ascending(vals[i])
                  /\ (IsElement(n) /\ Parent[n] # NIL) =>
                        Reverse(WalkOf(n, siblingPrevAll)) \o <<n>> \o vals[i]
                            = ElementsOf(ChildSeq(Parent[n]))

\* PrevAll walked back over two element siblings of an element source node
C5_Witness ==
    /\ call.op = "PrevAll"
    /\ \E i \in Sources : IsElement(Nodes[i]) /\ Len(vals[i]) >= 2

\* ------------------------------------------------------------------ C6
\* C6 (kind filter): for each source node, Contents contributes every child
\* once in document order, and Children contributes the elements among them.
C6_KindFilter ==
    /\ call.op = "Contents" =>
          \A i \in Sources : vals[i] = ChildSeq(Nodes[i])
    /\ call.op = "Children" =>
          \A i \in Sources : vals[i] = ElementsOf(ChildSeq(Nodes[i]))

\* Contents returned children that start with a run of two non-elements
C6_Witness ==
    /\ call.op = "Contents"
    /\ \E i \in Sources :
          /\ Len(vals[i]) >= 3
          /\ ~IsElement(vals[i][1]) /\ ~IsElement(vals[i][2])
          /\ IsElement(vals[i][3])

\* ------------------------------------------------------------------ C7
ParentsOps == {"Parents", "ParentsUntil", "ParentsUntilNodes", "ParentsUntilSelection"}

\* the ancestors of n that match the stop condition of the recorded call
StopAncestors(n) == {a \in Ancestors(n) : StopMatches(a)}

\* the element ancestors of n below its nearest stop-matching ancestor,
\* nearest first (an ancestor is nearer when its number is larger)
AncestorsBelowStop(n) ==
    Reverse(SortedSeq(
        {a \in Ancestors(n) :
            /\ IsElement(a)
            /\ StopAncestors(n) # {} => a > Max(StopAncestors(n))}))

\* C7 (ancestors with stop): for each source node the Parents methods
\* contribute exactly its element ancestors strictly below the nearest
\* ancestor matching the stop condition, nearest first; all element ancestors
\* when there is no stop condition.
C7_AncestorsWithStop ==
    call.op \in ParentsOps =>
        \A i \in Sources : vals[i] = AncestorsBelowStop(Nodes[i])

\* a stop-matching ancestor cut the walk after a nearer ancestor was
\* contributed
C7_Witness ==
    /\ call.op \in ParentsOps
    /\ \E i \in Sources :
          /\ vals[i] # <<>>
          /\ \E a \in StopAncestors(Nodes[i]) : IsElement(a)

\* ------------------------------------------------------------------ C8
\* the nodes matching the selector of the recorded Find in the subtrees
\* rooted at the element children of n
MatchesBelow(n) ==
    {x \in NodeIds :
        /\ MatchesFilter(x)
        /\ \E c \in NodeIds :
              Parent[c] = n /\ IsElement(c) /\ (x = c \/ IsAncestor(c, x))}

\* C8 (Find returns strict descendants only): for each source node Find
\* contributes exactly the matching nodes in the subtrees of its element
\* children, never the source node itself and nothing outside its subtree.
C8_FindStrictDescendants ==
    call.op = "Find" =>
        \A i \in Sources :
            /\ vals[i] = SortedSeq(MatchesBelow(Nodes[i]))
            /\ \A x \in Range(vals[i]) : IsAncestor(Nodes[i], x)

\* Find on a source node that matches the selector contributed a descendant
C8_Witness ==
    /\ call.op = "Find"
    /\ \E i \in Sources : MatchesFilter(Nodes[i]) /\ vals[i] # <<>>

\* ------------------------------------------------------------------ C9
\* the match condition of the recorded Closest or ClosestNodes
ClosestMatches(x) ==
    IF call.op = "Closest" THEN MatchesFilter(x) ELSE x \in Range(call.nodes)

\* C9 (Closest): for each source node Closest contributes at most one node:
\* the node itself when it matches, otherwise its nearest matching ancestor,
\* and nothing when neither it nor an ancestor matches.
C9_Closest ==
    call.op \in {"Closest", "ClosestNodes"} =>
        \A i \in Sources :
            LET n == Nodes[i]
                found == {x \in Ancestors(n) \cup {n} : ClosestMatches(x)}
            IN  /\ Len(vals[i]) <= 1
                /\ ClosestMatches(n) => vals[i] = <<n>>
                /\ found = {} => vals[i] = <<>>
                /\ found # {} => vals[i] = <<Max(found)>>

\* Closest passed a source node that does not match and chose the nearer of
\* two matching ancestors
C9_Witness ==
    /\ call.op = "Closest"
    /\ \E i \in Sources :
          /\ ~ClosestMatches(Nodes[i])
          /\ Cardinality({x \in Ancestors(Nodes[i]) : ClosestMatches(x)}) >= 2
          /\ vals[i] # <<>>

\* ------------------------------------------------------------------ C10
\* C10 (pivot exclusion in Siblings): for each source node that has a parent,
\* Siblings contributes exactly the parent's element children other than the
\* source node, in document order.
C10_SiblingsExcludePivot ==
    (call.op = "Siblings" /\ ~panicked) =>
        \A i \in Sources :
            LET n == Nodes[i]
            IN  Parent[n] # NIL =>
                  /\ vals[i] = SelectSeq(ElementsOf(ChildSeq(Parent[n])),
                                         LAMBDA x : x # n)
                  /\ n \notin Range(vals[i])

\* Siblings of an element between a non-element and an element sibling
C10_Witness ==
    /\ call.op = "Siblings"
    /\ ~panicked
    /\ \E i \in Sources :
          /\ IsElement(Nodes[i])
          /\ \E x \in Preceding(Nodes[i]) : ~IsElement(x)
          /\ \E x \in Following(Nodes[i]) : IsElement(x)
          /\ vals[i] # <<>>

\* ------------------------------------------------------------------ C11
WalkFinished == walk.pc \in {"done", "panic"}

\* a sibling walk comes to its nodes in document order, or in reverse
\* document order in the Prev modes, and never to the pivot; an ancestor
\* walk comes to each node from one of its descendants; no walk comes to a
\* node twice
OneDirection ==
    /\ ~walk.revisited
    /\ NoDup(walk.visited)
    /\ walk.fn = "getChildrenWithSiblingType" =>
          /\ IF walk.st \in PrevModes THEN Descending(walk.visited)
             ELSE Ascending(walk.visited)
          /\ walk.skipNode \notin Range(walk.visited)
    /\ walk.fn \in {"getParentsNodes", "Closest", "ClosestNodes"} =>
          \A i, j \in DOMAIN walk.visited :
              i < j => IsAncestor(walk.visited[j], walk.visited[i])

\* C11 (termination): every walk of getChildrenWithSiblingType (every mode,
\* pivot and stop predicate) and every ancestor walk of getParentsNodes,
\* Closest and ClosestNodes eventually finishes, and all along it the walk
\* advances in one direction only and comes to no node twice.
C11_WalksTerminate == <>WalkFinished /\ []OneDirection

\* a finished walk in mode All whose retry loop passed a non-element sibling
\* and whose pivot lies between two siblings it came to
C11_Witness ==
    /\ walk.pc = "done"
    /\ walk.fn = "getChildrenWithSiblingType"
    /\ walk.st = siblingAll
    /\ \E x \in Range(walk.visited) : ~IsElement(x)
    /\ \E x, y \in Range(walk.visited) : x < walk.skipNode /\ walk.skipNode < y

\* ------------------------------------------------------------------ C12
\* the source nodes of the recorded call whose parent link is absent
Parentless == {i \in DOMAIN Nodes : Parent[Nodes[i]] = NIL}

SiblingsOps == {"Siblings", "SiblingsFiltered"}

PrevNextOps ==
    {"Next", "NextAll", "NextUntil", "NextUntilNodes", "NextUntilSelection",
     "NextFiltered", "NextAllFiltered", "NextFilteredUntil",
     "NextFilteredUntilNodes", "NextFilteredUntilSelection",
     "Prev", "PrevAll", "PrevUntil", "PrevUntilNodes", "PrevUntilSelection",
     "PrevFiltered", "PrevAllFiltered", "PrevFilteredUntil",
     "PrevFilteredUntilNodes", "PrevFilteredUntilSelection"}

UpwardOps ==
    {"Parent", "ParentFiltered", "Parents", "ParentsFiltered",
     "ParentsUntil", "ParentsUntilNodes", "ParentsUntilSelection",
     "ParentsFilteredUntil", "ParentsFilteredUntilNodes",
     "ParentsFilteredUntilSelection"}

DownwardOrSelfOps ==
    {"Children", "ChildrenFiltered", "Contents", "Find",
     "Closest", "ClosestNodes"}

\* the panic is reached only by Siblings / SiblingsFiltered on a selection
\* holding a parentless node
PanicOnlyFromSiblings ==
    panicked => call.op \in SiblingsOps /\ Parentless # {}

\* the methods of ops complete normally; with quiet, a parentless source
\* node contributes nothing
CompletesNormally(ops, quiet) ==
    call.op \in ops =>
        /\ ~panicked
        /\ quiet => \A i \in Parentless : vals[i] = <<>>

\* C12 as stated (nil-parent reachability): the panic is reached only by
\* Siblings / SiblingsFiltered on a parentless source node, and for a
\* parentless source node the Prev*/Next* methods, Children, Contents,
\* Parent, Parents*, Closest* and Find all complete normally and contribute
\* nothing.
C12_ParentlessContributesNothing ==
    /\ PanicOnlyFromSiblings
    /\ CompletesNormally(PrevNextOps \cup UpwardOps \cup DownwardOrSelfOps, TRUE)

\* C12 (nil-parent reachability), amended: the panic is reached only by
\* Siblings / SiblingsFiltered on a parentless source node; every other
\* method completes normally, and for a parentless source node the
\* Prev*/Next* methods, Parent and Parents* contribute nothing, while
\* Children, Contents, Find and Closest* contribute what lies below the node
\* (or the node itself, for Closest*).
C12_PanicOnlyFromSiblings ==
    /\ PanicOnlyFromSiblings
    /\ CompletesNormally(PrevNextOps \cup UpwardOps, TRUE)
    /\ CompletesNormally(DownwardOrSelfOps, FALSE)

\* Siblings panicked on a selection of a parentless node and a node that
\* has a parent
C12_Witness ==
    /\ panicked
    /\ call.op = "Siblings"
    /\ Parentless # {}
    /\ Parentless # DOMAIN Nodes
====
